---- MODULE Spec2Model ----
(***************************************************************************)
(* pyblish-qml, src/pyblish_qml/app.py: the Application's two background   *)
(* threads (message_monitor, heartbeat_monitor), the queued signal         *)
(* delivery to the UI thread, Application.show/hide/on_server_unresponsive *)
(* and Window.event.                                                       *)
(*                                                                         *)
(* Time is a discrete clock `now`; one tick is 0.1 s, the pump's sleep.    *)
(* Signals emitted from a background thread are queued to the UI thread    *)
(* (Qt auto connection), one queue entry per connected slot.               *)
(***************************************************************************)
EXTENDS Integers, Sequences, FiniteSets, TLC

VARIABLES
    preload,       \* main(preload=...)
    keep_alive,    \* Application.keep_alive
    states,        \* controller.states, owned by the pipeline
    visible,       \* window.isVisible()
    queue,         \* slot invocations queued to the UI thread
    wait_depth,    \* show() frames blocked in ready.wait(1000)
    quit_called,   \* QGuiApplication.quit() has been called
    process,       \* "running" | "exited"
    exit_status,   \* process exit status, NoStatus while running
    timer,         \* the dict `timer` of listen()
    message,       \* message_monitor's local `message`
    pump_pc,       \* message_monitor: "running" | "stopped" (after break)
    pump_wake,     \* clock value at which the pump's sleep(0.1) ends
    host_calls,    \* calls of self.host.push()
    dispatched,    \* messages returned by self.host.push()
    now,           \* clock, in ticks
    wd_wake,       \* clock value at which heartbeat_monitor's sleep ends
    wd_emits,      \* server_unresponsive emissions made by heartbeat_monitor
    emitted,       \* emissions per signal
    last_info,     \* argument of the last controller.info emission
    echoed,        \* util.echo calls per kind
    resets,        \* controller.reset() calls
    spy_len,       \* len(ready) after the last ready.wait(1000) that returned
    last_close     \* outcome of the last Close event seen by Window.event

vars == <<preload, keep_alive, states, visible, queue, wait_depth, quit_called,
          process, exit_status, timer, message, pump_pc, pump_wake, host_calls,
          dispatched, now, wd_wake, wd_emits, emitted, last_info, echoed,
          resets, spy_len, last_close>>

uiVars == <<visible, queue, wait_depth, quit_called, resets, spy_len,
           last_close>>
pumpVars == <<message, pump_pc, pump_wake, host_calls, dispatched>>
envVars == <<preload, keep_alive, states>>

----------------------------------------------------------------------------
(* Bounds of the model *)

\* host.push() is called at most MaxCalls times
MaxCalls == 2
\* the clock stops at MaxTime ticks in the timed specification
MaxTime == 32
\* the clock of the untimed specification stops when MaxCalls calls fit
ShortTime == MaxCalls - 1

(* Program constants *)

\* time.sleep(0.1) is one tick, so a second is ten ticks
TicksPerSecond == 10

Keywords == {"heartbeat", "show", "close", "kill"}
\* tokens the host may send: the keywords, and tokens that are none of them
Tokens == Keywords \cup {"Show", "publish"}

Signals == {"server_unresponsive", "show_signal", "quit_signal",
            "controller.info", "controller.show"}
EchoKinds == {"pump_error", "kill", "timer", "unresponsive", "not_ready"}

\* the activity states the pipeline may be in, as far as app.py reads them
PipelineStates == {{}, {"ready"}, {"publishing"}, {"finished"}}

NoStatus == 0 - 1
NoMessage == "<unset>"

----------------------------------------------------------------------------
(* Signal delivery *)

\* the slots, had __init__ left server_unresponsive unconnected
Connections_unconnected(sig) ==
    CASE sig = "show_signal" -> <<"show">>
      [] OTHER -> <<>>

\* slots connected in Application.__init__
Connections(sig) ==
    CASE sig = "server_unresponsive" -> <<"on_server_unresponsive">>
      [] sig = "show_signal" -> <<"show">>
      [] OTHER -> <<>>

\* signal.emit() from a thread other than the receiver's
Emit(sig) ==
    /\ emitted' = [emitted EXCEPT ![sig] = @ + 1]
    /\ queue' = queue \o Connections(sig)

Echo(kind) == echoed' = [echoed EXCEPT ![kind] = @ + 1]

----------------------------------------------------------------------------
(* Initial state: main() has built the Application, called listen() and,   *)
(* unless preload, emitted show_signal; exec_() is about to run.           *)

TimerInit == [time |-> 0, count |-> 0, interval |-> 1,
              intervals_before_death |-> 2]

\* main() that raises the show request whatever preload is
Init_ignores_preload ==
    /\ preload \in BOOLEAN
    /\ keep_alive \in BOOLEAN
    /\ states \in PipelineStates
    /\ visible = FALSE
    /\ queue = Connections("show_signal")
    /\ emitted = [s \in Signals |->
                    IF s = "show_signal" THEN 1 ELSE 0]
    /\ wait_depth = 0
    /\ quit_called = FALSE
    /\ process = "running"
    /\ exit_status = NoStatus
    /\ timer = TimerInit
    /\ message = NoMessage
    /\ pump_pc = "running"
    /\ pump_wake = 0
    /\ host_calls = 0
    /\ dispatched = 0
    /\ now = 0
    /\ wd_wake = TimerInit.interval * TicksPerSecond
    /\ wd_emits = 0
    /\ last_info = ""
    /\ echoed = [k \in EchoKinds |-> 0]
    /\ resets = 0
    /\ spy_len = 0
    /\ last_close = <<>>

Init ==
    /\ preload \in BOOLEAN
    /\ keep_alive \in BOOLEAN
    /\ states \in PipelineStates
    /\ visible = FALSE
    /\ queue = IF preload THEN <<>> ELSE Connections("show_signal")
    /\ emitted = [s \in Signals |->
                    IF s = "show_signal" /\ ~preload THEN 1 ELSE 0]
    /\ wait_depth = 0
    /\ quit_called = FALSE
    /\ process = "running"
    /\ exit_status = NoStatus
    /\ timer = TimerInit
    /\ message = NoMessage
    /\ pump_pc = "running"
    /\ pump_wake = 0
    /\ host_calls = 0
    /\ dispatched = 0
    /\ now = 0
    /\ wd_wake = TimerInit.interval * TicksPerSecond
    /\ wd_emits = 0
    /\ last_info = ""
    /\ echoed = [k \in EchoKinds |-> 0]
    /\ resets = 0
    /\ spy_len = 0
    /\ last_close = <<>>

----------------------------------------------------------------------------
(* message_monitor: one iteration of its loop per step *)

\* "Unhandled incoming message: \"%s\"" % message
Fmt(m) == "Unhandled incoming message: \"" \o m \o "\""

\* message == "heartbeat"
OnHeartbeat ==
    /\ timer' = [k \in DOMAIN timer \cup {"value"} |->
                   IF k = "value" THEN now
                   ELSE IF k = "count" THEN timer[k] + 1
                   ELSE timer[k]]
    /\ UNCHANGED <<emitted, queue, last_info, echoed, process, exit_status>>

\* message == "show"
OnShow ==
    /\ Emit("show_signal")
    /\ UNCHANGED <<timer, last_info, echoed, process, exit_status>>

\* message == "close"
OnClose ==
    /\ Emit("quit_signal")
    /\ UNCHANGED <<timer, last_info, echoed, process, exit_status>>

\* "kill" handled as a graceful request: no exit on the pump thread
OnKill_graceful ==
    /\ Echo("kill")
    /\ emitted' = [emitted EXCEPT !["server_unresponsive"] = @ + 1]
    /\ queue' = Append(queue, "on_server_unresponsive")
    /\ UNCHANGED <<timer, last_info, process, exit_status>>

\* message == "kill": os._exit(1) on the pump thread
OnKill ==
    /\ Echo("kill")
    /\ process' = "exited"
    /\ exit_status' = 1
    /\ UNCHANGED <<timer, emitted, queue, last_info>>

\* any other message
OnOther(m) ==
    /\ Emit("controller.info")
    /\ last_info' = Fmt(m)
    /\ UNCHANGED <<timer, echoed, process, exit_status>>

\* the dispatch, had it matched "show" whatever the token's case
Dispatch_anycase(m) ==
    IF m = "heartbeat" THEN OnHeartbeat
    ELSE IF m \in {"show", "Show"} THEN OnShow
    ELSE IF m = "close" THEN OnClose
    ELSE IF m = "kill" THEN OnKill
    ELSE OnOther(m)

Dispatch(m) ==
    IF m = "heartbeat" THEN OnHeartbeat
    ELSE IF m = "show" THEN OnShow
    ELSE IF m = "close" THEN OnClose
    ELSE IF m = "kill" THEN OnKill
    ELSE OnOther(m)

PumpReady ==
    /\ process = "running"
    /\ pump_pc = "running"
    /\ now >= pump_wake
    /\ host_calls < MaxCalls

\* a loop that returns after one dispatch
PumpContinue_stop ==
    /\ pump_pc' = "stopped"
    /\ pump_wake' = now + 1

\* after the dispatch: time.sleep(0.1), then the next iteration
PumpContinue ==
    /\ pump_pc' = "running"
    /\ pump_wake' = now + 1

\* a pump that shows the window itself instead of emitting show_signal
message_monitor_direct(m) ==
    /\ PumpReady
    /\ host_calls' = host_calls + 1
    /\ dispatched' = dispatched + 1
    /\ message' = m
    /\ Dispatch(m)
    /\ visible' = (IF m = "show" THEN TRUE ELSE visible)
    /\ IF process' = "running" THEN PumpContinue
       ELSE UNCHANGED <<pump_pc, pump_wake>>
    /\ UNCHANGED <<envVars, wait_depth, quit_called, resets,
                   last_close, spy_len, now, wd_wake, wd_emits>>

\* self.host.push() returns m
message_monitor(m) ==
    /\ PumpReady
    /\ host_calls' = host_calls + 1
    /\ dispatched' = dispatched + 1
    /\ message' = m
    /\ Dispatch(m)
    /\ IF process' = "running" THEN PumpContinue
       ELSE UNCHANGED <<pump_pc, pump_wake>>
    /\ UNCHANGED <<envVars, visible, wait_depth, quit_called, resets,
                   last_close, spy_len, now, wd_wake, wd_emits>>

\* the except branch without its break: the loop calls the host again
PumpBreak_retry ==
    /\ Echo("pump_error")
    /\ Emit("server_unresponsive")
    /\ pump_pc' = "running"

\* self.host.push() raises: echo, emit, break
PumpBreak ==
    /\ Echo("pump_error")
    /\ Emit("server_unresponsive")
    /\ pump_pc' = "stopped"

push_raises ==
    /\ PumpReady
    /\ host_calls' = host_calls + 1
    /\ PumpBreak
    /\ UNCHANGED <<envVars, visible, wait_depth, quit_called, resets,
                   last_close, spy_len, now, wd_wake, wd_emits, timer, message,
                   pump_wake, dispatched, last_info, process, exit_status>>

----------------------------------------------------------------------------
(* heartbeat_monitor: one iteration of its loop per step *)

\* a test with the comparison turned round
Expired_inverted ==
    timer["time"] <= timer["interval"] * timer["intervals_before_death"]

\* timer["time"] > (timer["interval"] * timer["intervals_before_death"])
Expired == timer["time"] > timer["interval"] * timer["intervals_before_death"]

\* what follows an iteration: the loop has no break
WatchdogContinue == wd_wake' = now + timer["interval"] * TicksPerSecond

heartbeat_monitor ==
    /\ process = "running"
    /\ now = wd_wake
    /\ IF Expired
         THEN /\ Echo("timer")
              /\ Emit("server_unresponsive")
              /\ wd_emits' = wd_emits + 1
         ELSE UNCHANGED <<echoed, emitted, queue, wd_emits>>
    /\ WatchdogContinue
    /\ UNCHANGED <<envVars, visible, wait_depth, quit_called, resets,
                   last_close, spy_len, now, timer, pumpVars, last_info, process,
                   exit_status>>

\* 0.1 s passes; a sleeping thread wakes when its sleep ends, not later
Tick(horizon) ==
    /\ process = "running"
    /\ now < horizon
    /\ now < wd_wake
    /\ now' = now + 1
    /\ UNCHANGED <<envVars, uiVars, pumpVars, timer, wd_wake, wd_emits,
                   emitted, last_info, echoed, process, exit_status>>

----------------------------------------------------------------------------
(* The UI thread. The event loop of exec_(), and the nested event loop of  *)
(* ready.wait(1000), deliver the queued slot invocations in order, and the *)
(* window's events. After quit() the loop may still deliver what is        *)
(* queued before exec_() returns.                                          *)

UiDelivers == process = "running"

\* if previously_hidden: ready/finished in controller.states
NeedsWait == ~(\E state \in {"ready", "finished"} : state \in states)

\* show() that forgets window.showNormal()
show_not_shown ==
    /\ UiDelivers
    /\ queue # <<>> /\ Head(queue) = "show"
    /\ queue' = Tail(queue)
    /\ LET previously_hidden == ~visible IN
       IF previously_hidden
         THEN IF NeedsWait
                THEN /\ wait_depth' = wait_depth + 1
                     /\ UNCHANGED <<emitted, resets>>
                ELSE /\ emitted' = [emitted EXCEPT !["controller.show"] = @ + 1]
                     /\ resets' = resets + 1
                     /\ UNCHANGED wait_depth
         ELSE UNCHANGED <<wait_depth, emitted, resets>>
    /\ UNCHANGED <<envVars, visible, quit_called, last_close, spy_len, now, timer,
                   pumpVars, wd_wake, wd_emits, last_info, echoed, process,
                   exit_status>>

\* show() that resets the pipeline before it waits for the ready signal
show_reset_first ==
    /\ UiDelivers
    /\ queue # <<>> /\ Head(queue) = "show"
    /\ queue' = Tail(queue)
    /\ LET previously_hidden == ~visible IN
       /\ visible' = TRUE
       /\ IF previously_hidden
            THEN /\ emitted' = [emitted EXCEPT !["controller.show"] = @ + 1]
                 /\ resets' = resets + 1
                 /\ wait_depth' = IF NeedsWait THEN wait_depth + 1
                                  ELSE wait_depth
            ELSE UNCHANGED <<wait_depth, emitted, resets>>
    /\ UNCHANGED <<envVars, quit_called, last_close, spy_len, now, timer, pumpVars,
                   wd_wake, wd_emits, last_info, echoed, process, exit_status>>

\* show() that shows and resets whether or not the window was hidden
show_always_resets ==
    /\ UiDelivers
    /\ queue # <<>> /\ Head(queue) = "show"
    /\ queue' = Tail(queue)
    /\ visible' = TRUE
    /\ emitted' = [emitted EXCEPT !["controller.show"] = @ + 1]
    /\ resets' = resets + 1
    /\ UNCHANGED wait_depth
    /\ UNCHANGED <<envVars, quit_called, last_close, spy_len, now, timer, pumpVars,
                   wd_wake, wd_emits, last_info, echoed, process, exit_status>>

\* Application.show up to and including the start of ready.wait(1000),
\* or the whole of it when there is nothing to wait for
show ==
    /\ UiDelivers
    /\ queue # <<>> /\ Head(queue) = "show"
    /\ queue' = Tail(queue)
    /\ LET previously_hidden == ~visible IN
       /\ visible' = TRUE
       /\ IF previously_hidden
            THEN IF NeedsWait
                   THEN /\ wait_depth' = wait_depth + 1
                        /\ UNCHANGED <<emitted, resets>>
                   ELSE /\ emitted' = [emitted EXCEPT !["controller.show"] = @ + 1]
                        /\ resets' = resets + 1
                        /\ UNCHANGED wait_depth
            ELSE UNCHANGED <<wait_depth, emitted, resets>>
    /\ UNCHANGED <<envVars, quit_called, last_close, spy_len, now, timer, pumpVars,
                   wd_wake, wd_emits, last_info, echoed, process, exit_status>>

\* the warning, had it been given when the ready signal did arrive
CouldNotEnterReady_inverted(len_ready, count) == len_ready = count + 1

\* len(ready) != count + 1
CouldNotEnterReady(len_ready, count) == len_ready # count + 1

\* Application.show from the return of ready.wait(1000) on. The spy is new,
\* so count = 0; `ready` says whether it has recorded the controller's ready
\* signal when the wait returns.
show_after_wait(ready) ==
    /\ process = "running"
    /\ wait_depth > 0
    /\ wait_depth' = wait_depth - 1
    /\ spy_len' = IF ready THEN 1 ELSE 0
    /\ IF CouldNotEnterReady(spy_len', 0) THEN Echo("not_ready")
       ELSE UNCHANGED echoed
    /\ emitted' = [emitted EXCEPT !["controller.show"] = @ + 1]
    /\ resets' = resets + 1
    /\ UNCHANGED <<envVars, visible, queue, quit_called, last_close, now,
                   timer, pumpVars, wd_wake, wd_emits, last_info, process,
                   exit_status>>

\* Application.on_server_unresponsive
on_server_unresponsive ==
    /\ UiDelivers
    /\ queue # <<>> /\ Head(queue) = "on_server_unresponsive"
    /\ queue' = Tail(queue)
    /\ Echo("unresponsive")
    /\ quit_called' = TRUE
    /\ UNCHANGED <<envVars, visible, wait_depth, resets, last_close, spy_len, now,
                   timer, pumpVars, wd_wake, wd_emits, emitted, last_info,
                   process, exit_status>>

\* hide() that also resets the pipeline
hide_and_reset ==
    /\ visible' = FALSE
    /\ emitted' = [emitted EXCEPT !["controller.show"] = @ + 1]
    /\ resets' = resets + 1
    /\ UNCHANGED queue

\* hide() that closes the window for good: Qt quits the application
hide_closes ==
    /\ visible' = FALSE
    /\ queue' = Append(queue, "quit")
    /\ UNCHANGED <<emitted, resets>>

\* Application.hide: self.window.hide(), and nothing of the controller
hide ==
    /\ visible' = FALSE
    /\ UNCHANGED <<queue, emitted, resets>>

\* the close decision, had keep_alive been tested before "publishing"
CloseDecision_keep_alive_first(shift_pressed) ==
    IF shift_pressed THEN "accept"
    ELSE IF ~keep_alive THEN "accept"
    ELSE IF "publishing" \in states THEN "ignore"
    ELSE "hide"

\* Window.event's answer to a Close event: "accept", "ignore" (the event is
\* ignored) or "hide" (the event is ignored and parent.hide() is called)
CloseDecision(shift_pressed) ==
    IF shift_pressed THEN "accept"
    ELSE IF "publishing" \in states THEN "ignore"
    ELSE IF ~keep_alive THEN "accept"
    ELSE "hide"

\* Window.event(Close) on the visible window. super().event() closes the
\* window on an accepted Close; it is the application's last window, so Qt
\* posts the application its Quit event.
Window_event(shift_pressed) ==
    /\ UiDelivers
    /\ visible
    /\ LET d == CloseDecision(shift_pressed) IN
       /\ last_close' = <<[shift |-> shift_pressed,
                           publishing |-> "publishing" \in states,
                           keep_alive |-> keep_alive,
                           decision |-> d]>>
       /\ CASE d = "accept" -> /\ visible' = FALSE
                                /\ queue' = Append(queue, "quit")
                                /\ UNCHANGED <<emitted, resets>>
            [] d = "hide" -> hide
            [] OTHER -> UNCHANGED <<visible, queue, emitted, resets>>
    /\ UNCHANGED <<envVars, quit_called, wait_depth, spy_len, now, timer,
                   pumpVars, wd_wake, wd_emits, last_info, echoed, process,
                   exit_status>>

\* the application's Quit event: quit()
quit_event ==
    /\ UiDelivers
    /\ queue # <<>> /\ Head(queue) = "quit"
    /\ queue' = Tail(queue)
    /\ quit_called' = TRUE
    /\ UNCHANGED <<envVars, visible, wait_depth, resets, last_close, spy_len, now,
                   timer, pumpVars, wd_wake, wd_emits, emitted, last_info,
                   echoed, process, exit_status>>

\* main: return app.exec_(), once quit() was called and no show() is on
\* the stack
exec_returns ==
    /\ process = "running"
    /\ quit_called
    /\ wait_depth = 0
    /\ process' = "exited"
    /\ exit_status' = 0
    /\ UNCHANGED <<envVars, uiVars, now, timer, pumpVars, wd_wake, wd_emits,
                   emitted, last_info, echoed>>

\* the pipeline changes its activity states
pipeline_step ==
    /\ process = "running"
    /\ states' \in PipelineStates \ {states}
    /\ UNCHANGED <<preload, keep_alive, uiVars, now, timer, pumpVars, wd_wake,
                   wd_emits, emitted, last_info, echoed, process, exit_status>>

----------------------------------------------------------------------------
(* Specifications *)

Pump == (\E m \in Tokens : message_monitor(m)) \/ push_raises
Ui == show \/ (\E r \in BOOLEAN : show_after_wait(r))
         \/ on_server_unresponsive \/ quit_event \/ exec_returns
User == \E s \in BOOLEAN : Window_event(s)

\* the first ShortTime ticks of a run: heartbeat_monitor is still in its
\* first sleep, every other thread, the user and the pipeline take steps
Next ==
    \/ Pump
    \/ Tick(ShortTime)
    \/ Ui
    \/ User
    \/ pipeline_step

Spec == Init /\ [][Next]_vars

\* the UI thread's event loop keeps running while it has something to do
FairSpec == Spec /\ WF_vars(Ui)

\* the same for an application that is kept alive: main(debug=False)
InitKeepAlive == Init /\ keep_alive

FairSpecKeepAlive == InitKeepAlive /\ [][Next]_vars /\ WF_vars(Ui)

\* MaxTime ticks of a preloaded application left alone by its user:
\* both background threads and the UI thread
InitWatchdog == Init /\ preload /\ keep_alive /\ states = {"ready"}

NextWatchdog ==
    \/ Pump
    \/ heartbeat_monitor
    \/ Tick(MaxTime)
    \/ show
    \/ on_server_unresponsive
    \/ exec_returns

SpecWatchdog == InitWatchdog /\ [][NextWatchdog]_vars

----------------------------------------------------------------------------
(* Properties *)

\* when the last heartbeat arrived, or the start when none did
LastBeatAt == IF "value" \in DOMAIN timer THEN timer["value"] ELSE 0
IntervalTicks == timer["interval"] * TicksPerSecond
ThresholdTicks == IntervalTicks * timer["intervals_before_death"]

\* server_unresponsive emissions made by message_monitor
PumpEmits == emitted["server_unresponsive"] - wd_emits

\* the step in which message_monitor gets m from the host and dispatches it
Pulled(m) == host_calls' = host_calls + 1 /\ dispatched' = dispatched + 1
             /\ message' = m

\* C1. Heartbeat timeout is detected: once the silence since the last
\* heartbeat (or since the start) has lasted a watchdog tick beyond
\* interval * intervals_before_death, heartbeat_monitor has emitted
\* server_unresponsive; with no heartbeat at all that is the tick at
\* three intervals.
C1_TimeoutDetected ==
    (process = "running" /\ now - LastBeatAt > ThresholdTicks + IntervalTicks)
        => wd_emits >= 1

\* C3. A "kill" message ends the process at once, on the pump thread, with
\* a non-zero exit status, whatever the state of the window, the pipeline
\* and the UI thread: no close decision, no quit(), no signal, and the
\* queued events stay undelivered.
C3_KillExitsImmediately ==
    [][Pulled("kill") =>
        /\ process' = "exited"
        /\ exit_status' # 0 /\ exit_status' # NoStatus
        /\ UNCHANGED <<queue, emitted, quit_called, last_close, spy_len, visible,
                       wait_depth, resets, states>>]_vars

C3_Witness ==
    /\ message = "kill" /\ process = "exited" /\ exit_status = 1
    /\ queue # <<>> /\ wait_depth > 0 /\ visible /\ ~quit_called

\* the close decision of the specification
ReferenceDecision(shift, publishing, keepAlive) ==
    CASE shift -> "accept"
      [] ~shift /\ publishing -> "ignore"
      [] ~shift /\ ~publishing /\ ~keepAlive -> "accept"
      [] ~shift /\ ~publishing /\ keepAlive -> "hide"

\* C4. Window.event decides a Close event as the reference function does,
\* for every (shift, "publishing" in states, keep_alive); without shift no
\* Close is accepted while "publishing" is among the states, and hide() is
\* called in the hide case only.
C4_CloseDecisionIsReference ==
    last_close # <<>> =>
        LET c == last_close[1] IN
        /\ c.decision = ReferenceDecision(c.shift, c.publishing, c.keep_alive)
        /\ (~c.shift /\ c.publishing) => c.decision # "accept"

C4_Witness ==
    /\ last_close # <<>>
    /\ ~last_close[1].shift /\ last_close[1].publishing
    /\ ~last_close[1].keep_alive
    /\ last_close[1].decision = "ignore" /\ visible

\* C5. When host.push() raises on its n-th call, the pump has dispatched
\* the n-1 messages returned before it, emits server_unresponsive once, and
\* never calls the host again.
C5_PushFailureStopsPump ==
    [][host_calls' > dispatched' =>
        /\ dispatched' = host_calls' - 1
        /\ PumpEmits' = 1
        /\ (host_calls > dispatched => host_calls' = host_calls)]_vars

C5_Witness ==
    /\ pump_pc = "stopped" /\ host_calls = 2 /\ dispatched = 1
    /\ PumpEmits = 1

C7_CloseShutsDown ==
    (emitted["quit_signal"] > 0 /\ queue = <<>> /\ wait_depth = 0)
        => (quit_called \/ process = "exited")

\* a show request of the pump is pending while the window is hidden
ShowPendingHidden ==
    /\ process = "running" /\ ~visible /\ message = "show"
    /\ \E i \in 1..Len(queue) : queue[i] = "show"

\* C8 as stated. A "show" message pulled while the process is alive and
\* the window hidden eventually makes the window visible.
C8_ShowMakesVisible == ShowPendingHidden ~> visible

\* C8 as amended. A "show" message pulled while the process is alive and
\* the window hidden eventually makes the window visible, unless the
\* process exits first (a later "kill").
C8_ShowMakesVisibleOrExit ==
    ShowPendingHidden ~> (visible \/ process = "exited")

C8_Witness ==
    /\ preload /\ message = "show" /\ visible /\ process = "running"
    /\ wait_depth = 0 /\ echoed["not_ready"] = 1 /\ resets = 1

\* C9. Message classification is total: a token that is no keyword gives
\* one controller.info emission carrying it and nothing else, and the pump
\* goes on; each keyword gives its own action and no other.
C9_ClassificationTotal ==
    [][\A m \in Tokens : Pulled(m) =>
        /\ (m \notin Keywords =>
              /\ emitted' = [emitted EXCEPT !["controller.info"] = @ + 1]
              /\ last_info' = Fmt(m)
              /\ UNCHANGED <<queue, timer, process>>
              /\ pump_pc' = "running")
        /\ (m = "heartbeat" =>
              /\ timer'["count"] = timer["count"] + 1
              /\ UNCHANGED <<emitted, queue, last_info, process>>)
        /\ (m = "show" =>
              /\ emitted' = [emitted EXCEPT !["show_signal"] = @ + 1]
              /\ queue' = Append(queue, "show")
              /\ UNCHANGED <<timer, last_info, process>>)
        /\ (m = "close" =>
              /\ emitted' = [emitted EXCEPT !["quit_signal"] = @ + 1]
              /\ UNCHANGED <<timer, last_info, process>>)
        /\ (m = "kill" =>
              /\ process' = "exited"
              /\ UNCHANGED <<emitted, queue, timer, last_info>>)]_vars

C9_Witness ==
    /\ message = "Show" /\ last_info = Fmt("Show")
    /\ emitted["controller.info"] = 1 /\ emitted["show_signal"] = 0
    /\ pump_pc = "running" /\ process = "running"

\* C10 as stated. The window is never visible while show() waits for the
\* ready signal.
C10_HiddenWhileWaiting == wait_depth > 0 => ~visible

\* C10 as amended. show() starts to wait only from a hidden window and
\* without a ready or finished state; it has made the window visible by
\* then; the pipeline is reset when the wait ends, not before.
C10_VisibleThenWaitThenReset ==
    [][/\ (wait_depth' = wait_depth + 1 =>
              /\ ~visible /\ visible' /\ NeedsWait
              /\ resets' = resets
              /\ emitted'["controller.show"] = emitted["controller.show"])
       /\ (wait_depth' = wait_depth - 1 =>
              /\ resets' = resets + 1
              /\ emitted'["controller.show"] = emitted["controller.show"] + 1)
      ]_vars

C10_Witness == wait_depth > 0 /\ visible /\ resets = 0 /\ NeedsWait

\* the step in which a ready.wait(1000) returns and show() goes on
WaitReturns == wait_depth' = wait_depth - 1

C12_HeartbeatBookkeeping ==
    [][/\ (Pulled("heartbeat") =>
              /\ timer'["time"] = now
              /\ timer'["count"] = timer["count"] + 1)
       /\ (~Pulled("heartbeat") =>
              /\ timer'["time"] = timer["time"]
              /\ timer'["count"] = timer["count"])
      ]_vars

\* the step in which Window.event answers a Close event with hide()
HideStep ==
    /\ visible /\ ~visible'
    /\ last_close'[1].decision = "hide"

\* the window is hidden since a Close event was answered with hide()
HiddenByHide ==
    /\ ~visible
    /\ last_close # <<>> /\ last_close[1].decision = "hide"

\* the window is so hidden and a show request of the pump is pending
ShowPendingAfterHide ==
    /\ process = "running" /\ HiddenByHide /\ message = "show"
    /\ \E i \in 1..Len(queue) : queue[i] = "show"

\* C13 as stated. After a Close event answered with hide(), a later "show"
\* message makes the window visible again.
C13_ShowAfterHide == ShowPendingAfterHide ~> visible

\* C13 as amended. A Close event answered with hide() hides the window,
\* calls no quit() and stops neither background loop; a later "show"
\* message makes the window visible again, unless the process exits
\* first, and the show() that does so resets the pipeline, at once or when
\* its wait for the ready signal is over.
C13_ShowAfterHideOrExit ==
    /\ [][HideStep => UNCHANGED <<process, quit_called, queue, pump_pc,
                                  pump_wake, wd_wake>>]_vars
    /\ ShowPendingAfterHide ~> (visible \/ process = "exited")
    /\ [][(HiddenByHide /\ visible') =>
              \/ resets' = resets + 1
              \/ wait_depth' = wait_depth + 1]_vars
    /\ [][WaitReturns => resets' = resets + 1]_vars
    /\ (wait_depth > 0) ~> (wait_depth = 0 \/ process = "exited")

C13_Witness ==
    /\ last_close # <<>> /\ last_close[1].decision = "hide"
    /\ visible /\ message = "show" /\ resets = 2 /\ queue = <<>>
    /\ process = "running" /\ pump_pc = "running" /\ ~quit_called


\* C14. No false alarm: heartbeat_monitor emits server_unresponsive only at
\* a wake-up at which more than interval * intervals_before_death seconds
\* have passed since the last heartbeat (or since the start, before the
\* first one), and then the emission is its own: nothing else counts as one.
C14_NoFalseAlarm ==
    [][wd_emits' # wd_emits =>
          /\ now - LastBeatAt > ThresholdTicks
          /\ now = wd_wake]_vars

\* heartbeats kept arriving less than the threshold apart and the watchdog
\* has looked three times
C14_Witness ==
    /\ timer["count"] = 2 /\ wd_wake = 4 * IntervalTicks
    /\ now = 3 * IntervalTicks /\ now - LastBeatAt < IntervalTicks
    /\ wd_emits = 0 /\ process = "running"


\* a step of one of the two background threads: an iteration of
\* message_monitor or of heartbeat_monitor
ThreadStep == host_calls' # host_calls \/ wd_wake' # wd_wake

\* a step of the UI context: a queued event is delivered, a wait for the
\* ready signal returns, or the window handles a Close event
UiStep ==
    \/ queue # <<>> /\ queue' = Tail(queue)
    \/ WaitReturns
    \/ /\ visible /\ last_close' # <<>>
       /\ last_close'[1].decision = CloseDecision(last_close'[1].shift)

\* C15. No step of message_monitor or heartbeat_monitor changes the window's
\* visibility or the pipeline: such a step leaves the window, the pipeline
\* states and resets, the readiness wait and quit() alone and at most
\* appends events to the UI context's queue; the window's visibility
\* changes only in steps of the UI context.
C15_OnlyUiChangesWindow ==
    [][/\ (ThreadStep =>
              /\ UNCHANGED <<visible, states, resets, wait_depth, spy_len,
                             quit_called, last_close>>
              /\ Len(queue') >= Len(queue)
              /\ SubSeq(queue', 1, Len(queue)) = queue)
       /\ (visible' # visible => UiStep /\ ~ThreadStep)
      ]_vars

\* the pump has pulled "show", show() has made the window visible on the UI
\* context, and the watchdog has looked
C15_Witness ==
    /\ visible /\ message = "show" /\ emitted["show_signal"] = 1
    /\ queue = <<>> /\ wd_wake > IntervalTicks /\ process = "running"


\* C16. hide() changes only the window's visibility, to hidden: the
\* pipeline's states are what they were, the pipeline is not reset, no
\* signal is emitted and no event queued, keep_alive and the heartbeat
\* bookkeeping are unchanged, both loops are where they were, and the
\* process runs on without quit().
C16_HideChangesOnlyVisibility ==
    [][HideStep =>
          /\ ~visible'
          /\ UNCHANGED <<states, resets, wait_depth, spy_len>>
          /\ UNCHANGED <<emitted, queue, echoed, last_info>>
          /\ UNCHANGED <<keep_alive, preload, timer>>
          /\ UNCHANGED <<pumpVars, wd_wake, wd_emits, now>>
          /\ UNCHANGED <<process, exit_status, quit_called>>
      ]_vars

\* hidden by hide() after a reset and a heartbeat, the pipeline finished
C16_Witness ==
    /\ HiddenByHide /\ states = {"finished"} /\ resets = 1
    /\ timer["count"] = 1 /\ pump_pc = "running" /\ process = "running"
    /\ ~quit_called /\ queue = <<>>


\* the messages that end nothing
NonFatal == Tokens \ {"kill"}

\* C17. After dispatching any message but "kill", message_monitor is still
\* in its loop and calls the host again after its 0.1 s sleep, the process
\* alive as before; its loop ends only in a step in which the host call
\* failed, and an iteration of it ends the process only on "kill".
C17_PumpKeepsRunning ==
    [][/\ \A m \in NonFatal :
             Pulled(m) => /\ pump_pc' = "running"
                          /\ pump_wake' = now + 1
                          /\ process' = process
       /\ (pump_pc' # pump_pc =>
              /\ pump_pc' = "stopped"
              /\ host_calls' = host_calls + 1 /\ dispatched' = dispatched)
       /\ (host_calls' # host_calls /\ process' # process => Pulled("kill"))
       /\ (process = "running" /\ host_calls = dispatched
              => pump_pc = "running")
      ]_vars

\* two non-fatal messages dispatched, the second one "close", the pump
\* still in its loop
C17_Witness ==
    /\ host_calls = 2 /\ dispatched = 2 /\ message = "close"
    /\ timer["count"] = 1 /\ pump_pc = "running" /\ process = "running"


\* the UI context runs on_server_unresponsive for the pump's failed call
UnresponsiveHandled ==
    /\ queue # <<>> /\ Head(queue) = "on_server_unresponsive"
    /\ queue' = Tail(queue)
    /\ PumpEmits > 0

\* C18. The handlers of the pump's events run on the UI context in the
\* order of dispatch; for a "close" followed by the failed host call: when
\* the handler of the failure runs, the handler of the "close" dispatched
\* before it has run and called quit().
C18_HandlersInDispatchOrder ==
    [][(UnresponsiveHandled /\ emitted["quit_signal"] > 0) => quit_called]_vars


\* the UI context runs show()
ShowStep == queue # <<>> /\ Head(queue) = "show" /\ queue' = Tail(queue)

\* C19. show() called while the window is visible leaves the window visible
\* and the pipeline untouched: no wait for the ready signal, no readiness
\* warning, no controller show event, no reset; a show() that starts a wait
\* or resets the pipeline found the window hidden.
C19_ShowWhileVisible ==
    [][/\ (ShowStep /\ visible =>
              /\ visible'
              /\ UNCHANGED <<wait_depth, spy_len, echoed, emitted, resets,
                             states>>)
       /\ (ShowStep /\ (wait_depth' # wait_depth \/ resets' # resets
                         \/ emitted' # emitted) => ~visible)
      ]_vars

\* two show requests were handled and the window was never hidden between
\* them: one reset only
C19_Witness ==
    /\ emitted["show_signal"] = 2 /\ queue = <<>> /\ wait_depth = 0
    /\ visible /\ last_close = <<>> /\ resets = 1
    /\ emitted["controller.show"] = 1 /\ process = "running"


\* a show request is waiting in the UI context's queue
ShowQueued == \E i \in 1..Len(queue) : queue[i] = "show"

\* C20. Started with preload, the application raises no show request of
\* its own: until the pump has dispatched a "show" message none is queued
\* and the window is not visible. Started without preload, one show
\* request was raised at startup, before any call to the host, and it is
\* queued for the UI context or show() has run.
C20_PreloadHidesUntilShow ==
    /\ (preload /\ emitted["show_signal"] = 0 => ~visible /\ ~ShowQueued)
    /\ (preload /\ host_calls = 0 => emitted["show_signal"] = 0)
    /\ (~preload => emitted["show_signal"] >= 1)
    /\ (~preload /\ host_calls = 0 =>
           /\ emitted["show_signal"] = 1
           /\ (ShowQueued \/ visible \/ last_close # <<>>))

\* a preloaded application shown by the host's "show" message, the pump
\* since gone on to a heartbeat
C20_Witness ==
    /\ preload /\ visible /\ emitted["show_signal"] = 1
    /\ host_calls = 2 /\ message = "heartbeat" /\ resets = 1

====
